---- MODULE Spec2Model ----
(***************************************************************************)
(* A model of hugh.i18n (parse_datetime, format_system_datetime) and of    *)
(* hugh.localized.us (is_valid_us_zip_code, USPhoneNumberField.convert).   *)
(*                                                                         *)
(* A text is a sequence of one-character strings.  A format is a sequence  *)
(* of tokens: a directive ("%Y", "%m", ...) or a literal character.        *)
(***************************************************************************)
EXTENDS Integers, Sequences, FiniteSets, TLC

VARIABLES
    string,     \* parse_datetime: the argument (None or a text)
    rebase,     \* parse_datetime: the rebase flag
    now,        \* the value datetime.utcnow() returns during the call
    parts,      \* how the caller composed the argument (kind, date text, time text)
    pc,         \* position of the running call
    idx,        \* index of the next format to try in the running loop
    tried,      \* number of convert(format) calls made so far
    line,       \* source line of the return/raise statement that ended the call
    rv,         \* returned value / raised error of the call
    text,       \* format_system_datetime: the returned text
    value,      \* the form value handed to a validator or a field
    required,   \* USPhoneNumberField.required
    message,    \* is_valid_us_zip_code: the message argument, then the validator's message
    again       \* what convert makes of the value it returned

vars == <<string, rebase, now, parts, pc, idx, tried, line, rv, text, value, required, message, again>>

\* None where a text is expected: a value that no text equals
None == <<"None">>

\* no value returned or raised yet
NoValue == [kind |-> "None"]

----------------------------------------------------------------------------
(* Characters *)

Digit == {"0", "1", "2", "3", "4", "5", "6", "7", "8", "9"}

\* re: \s without re.UNICODE
Whitespace == {" ", "\t", "\n", "\r"}

DigitChars == <<"0", "1", "2", "3", "4", "5", "6", "7", "8", "9">>

\* int() of one decimal digit
DigitVal(c) == CHOOSE n \in 0..9 : DigitChars[n + 1] = c

UpperChars == <<"A", "M", "P", "N", "O", "W", "X">>
LowerChars == <<"a", "m", "p", "n", "o", "w", "x">>

\* unicode.lower() of one character (the letters the inputs use)
LowerChar(c) ==
    IF \E i \in 1..Len(UpperChars) : UpperChars[i] = c
    THEN LowerChars[CHOOSE i \in 1..Len(UpperChars) : UpperChars[i] = c]
    ELSE c

\* unicode.lower()
Lower(s) == [i \in 1..Len(s) |-> LowerChar(s[i])]

\* int() of a text of digits, leading whitespace skipped (int(' 5') = 5)
RECURSIVE ToInt(_)
ToInt(s) ==
    IF Len(s) = 0 THEN 0
    ELSE IF s[Len(s)] \in Whitespace THEN ToInt(SubSeq(s, 1, Len(s) - 1))
    ELSE 10 * ToInt(SubSeq(s, 1, Len(s) - 1)) + DigitVal(s[Len(s)])

\* '%d' % n for n >= 0
RECURSIVE Dec(_)
Dec(n) == IF n < 10 THEN <<DigitChars[n + 1]>>
          ELSE Dec(n \div 10) \o <<DigitChars[(n % 10) + 1]>>

\* '%02d' % n for n >= 0
Dec02(n) == IF n < 10 THEN <<"0">> \o Dec(n) ELSE Dec(n)

\* '%04d' % n for n >= 0 (used to write the inputs only)
Dec04(n) == IF n < 10 THEN <<"0", "0", "0">> \o Dec(n)
            ELSE IF n < 100 THEN <<"0", "0">> \o Dec(n)
            ELSE IF n < 1000 THEN <<"0">> \o Dec(n)
            ELSE Dec(n)

----------------------------------------------------------------------------
(* hugh.i18n: the candidate formats *)

DATE_FORMATS ==
    << <<"%m", "/", "%d", "/", "%Y">>,
       <<"%d", "/", "%m", "/", "%Y">>,
       <<"%Y", "%m", "%d">>,
       <<"%d", ".", " ", "%m", ".", " ", "%Y">>,
       <<"%m", "/", "%d", "/", "%y">>,
       <<"%d", "/", "%m", "/", "%y">>,
       <<"%d", "%m", "%y">>,
       <<"%m", "%d", "%y">>,
       <<"%y", "%m", "%d">> >>

TIME_FORMATS ==
    << <<"%H", ":", "%M">>,
       <<"%H", ":", "%M", ":", "%S">>,
       <<"%I", ":", "%M", " ", "%p">>,
       <<"%I", ":", "%M", ":", "%S", " ", "%p">> >>

\* u'%Y-%m-%d %H:%M'
CANONICAL_FORMAT == <<"%Y", "-", "%m", "-", "%d", " ", "%H", ":", "%M">>

\* combined() with the loops nested the other way: date formats outside
MutCombinedDateOuter ==
    [n \in 1..(2 * Len(TIME_FORMATS) * Len(DATE_FORMATS)) |->
        LET d == DATE_FORMATS[((n - 1) \div (2 * Len(TIME_FORMATS))) + 1]
            t == TIME_FORMATS[(((n - 1) \div 2) % Len(TIME_FORMATS)) + 1]
        IN  IF n % 2 = 1 THEN t \o <<" ">> \o d ELSE d \o <<" ">> \o t]

\* combined() yielding 'time date' twice and 'date time' never
MutCombinedTimeFirstOnly ==
    [n \in 1..(2 * Len(TIME_FORMATS) * Len(DATE_FORMATS)) |->
        LET t == TIME_FORMATS[((n - 1) \div (2 * Len(DATE_FORMATS))) + 1]
            d == DATE_FORMATS[(((n - 1) \div 2) % Len(DATE_FORMATS)) + 1]
        IN  t \o <<" ">> \o d]

\* the generator combined(): for each time format, for each date format,
\* 'time date' and then 'date time'
combined ==
    [n \in 1..(2 * Len(TIME_FORMATS) * Len(DATE_FORMATS)) |->
        LET t == TIME_FORMATS[((n - 1) \div (2 * Len(DATE_FORMATS))) + 1]
            d == DATE_FORMATS[(((n - 1) \div 2) % Len(DATE_FORMATS)) + 1]
        IN  IF n % 2 = 1 THEN t \o <<" ">> \o d ELSE d \o <<" ">> \o t]

----------------------------------------------------------------------------
(* time.strptime as parse_datetime.convert uses it: the format becomes a   *)
(* regular expression (a whitespace run of the format is \s+, a directive  *)
(* is a group of alternatives tried in order, the match is                 *)
(* case-insensitive), re.match finds the first match in backtracking       *)
(* order, and the match has to end at the end of the text.                 *)

Directives == {"%Y", "%y", "%m", "%d", "%H", "%I", "%M", "%S", "%p"}

D19 == Digit \ {"0"}

\* the alternatives of a directive's group, each a sequence of character sets
DirectiveRE(d) ==
    CASE d = "%d" -> << <<{"3"}, {"0", "1"}>>, <<{"1", "2"}, Digit>>,
                        <<{"0"}, D19>>, <<D19>>, <<{" "}, D19>> >>
      [] d = "%H" -> << <<{"2"}, {"0", "1", "2", "3"}>>, <<{"0", "1"}, Digit>>,
                        <<Digit>> >>
      [] d = "%I" -> << <<{"1"}, {"0", "1", "2"}>>, <<{"0"}, D19>>, <<D19>> >>
      [] d = "%m" -> << <<{"1"}, {"0", "1", "2"}>>, <<{"0"}, D19>>, <<D19>> >>
      [] d = "%M" -> << <<{"0", "1", "2", "3", "4", "5"}, Digit>>, <<Digit>> >>
      [] d = "%S" -> << <<{"6"}, {"0", "1"}>>,
                        <<{"0", "1", "2", "3", "4", "5"}, Digit>>, <<Digit>> >>
      [] d = "%y" -> << <<Digit, Digit>> >>
      [] d = "%Y" -> << <<Digit, Digit, Digit, Digit>> >>
      [] d = "%p" -> << <<{"a", "A"}, {"m", "M"}>>, <<{"p", "P"}, {"m", "M"}>> >>

\* whether alternative alt matches the text s at position pos
AltMatches(alt, s, pos) ==
    /\ pos + Len(alt) - 1 <= Len(s)
    /\ \A j \in 1..Len(alt) : s[pos + j - 1] \in alt[j]

\* the length of the whitespace run of s that starts at pos
RECURSIVE SpaceRun(_, _)
SpaceRun(s, pos) ==
    IF pos <= Len(s) /\ s[pos] \in Whitespace THEN 1 + SpaceRun(s, pos + 1) ELSE 0

NoMatch == [ok |-> FALSE]

RECURSIVE MatchFrom(_, _, _, _)
RECURSIVE TryAlts(_, _, _, _, _)
RECURSIVE TrySpaces(_, _, _, _, _)

\* the first match of fmt[k..] on s from pos, in backtracking order
MatchFrom(fmt, k, s, pos) ==
    IF k > Len(fmt) THEN [ok |-> TRUE, end |-> pos - 1, found |-> <<>>]
    ELSE IF fmt[k] \in Directives THEN TryAlts(fmt, k, s, pos, 1)
    ELSE IF fmt[k] \in Whitespace THEN TrySpaces(fmt, k, s, pos, SpaceRun(s, pos))
    ELSE IF pos <= Len(s) /\ LowerChar(s[pos]) = LowerChar(fmt[k])
         THEN MatchFrom(fmt, k + 1, s, pos + 1)
    ELSE NoMatch

\* the alternatives a..last of the directive fmt[k], in order
TryAlts(fmt, k, s, pos, a) ==
    LET alts == DirectiveRE(fmt[k]) IN
    IF a > Len(alts) THEN NoMatch
    ELSE IF ~AltMatches(alts[a], s, pos) THEN TryAlts(fmt, k, s, pos, a + 1)
    ELSE LET n == Len(alts[a])
             rest == MatchFrom(fmt, k + 1, s, pos + n)
         IN  IF rest.ok
             THEN [ok |-> TRUE, end |-> rest.end,
                   found |-> (fmt[k] :> SubSeq(s, pos, pos + n - 1)) @@ rest.found]
             ELSE TryAlts(fmt, k, s, pos, a + 1)

\* \s+ is greedy: n whitespace characters, then n - 1, ... down to one
TrySpaces(fmt, k, s, pos, n) ==
    IF n < 1 THEN NoMatch
    ELSE LET rest == MatchFrom(fmt, k + 1, s, pos + n)
         IN  IF rest.ok THEN rest ELSE TrySpaces(fmt, k, s, pos, n - 1)

----------------------------------------------------------------------------
(* datetime *)

MINYEAR == 1
MAXYEAR == 9999

IsLeap(y) == (y % 4 = 0) /\ ((y % 100 # 0) \/ (y % 400 = 0))

DaysInMonth(y, m) ==
    IF m = 2 THEN (IF IsLeap(y) THEN 29 ELSE 28)
    ELSE IF m \in {4, 6, 9, 11} THEN 30 ELSE 31

RECURSIVE DaysBeforeMonth(_, _)
DaysBeforeMonth(y, m) ==
    IF m <= 1 THEN 0 ELSE DaysBeforeMonth(y, m - 1) + DaysInMonth(y, m - 1)

\* date.toordinal()
ToOrdinal(y, m, d) ==
    365 * (y - 1) + ((y - 1) \div 4) - ((y - 1) \div 100) + ((y - 1) \div 400)
        + DaysBeforeMonth(y, m) + d

\* date.weekday(): Monday is 0
Weekday(y, m, d) == (ToOrdinal(y, m, d) + 6) % 7

\* whether date(y, m, d) is constructed rather than raising ValueError
ValidDate(y, m, d) ==
    /\ y \in MINYEAR..MAXYEAR
    /\ m \in 1..12
    /\ d \in 1..DaysInMonth(y, m)

ValueError(msg) == [kind |-> "ValueError", msg |-> msg]

\* datetime(year, month, day, hour, minute, second, microsecond)
datetime(y, m, d, H, M, S, us) ==
    IF /\ ValidDate(y, m, d)
       /\ H \in 0..23
       /\ M \in 0..59
       /\ S \in 0..59
       /\ us \in 0..999999
    THEN [kind |-> "datetime", year |-> y, month |-> m, day |-> d,
          hour |-> H, minute |-> M, second |-> S, microsecond |-> us]
    ELSE ValueError("out of range")

\* the fields strptime computes from the groups f of the match
StructTime(f) ==
      LET has(d) == d \in DOMAIN f
          year == IF has("%y")
                  THEN (IF ToInt(f["%y"]) <= 68 THEN ToInt(f["%y"]) + 2000
                                                ELSE ToInt(f["%y"]) + 1900)
                  ELSE IF has("%Y") THEN ToInt(f["%Y"]) ELSE 1900
          month == IF has("%m") THEN ToInt(f["%m"]) ELSE 1
          day == IF has("%d") THEN ToInt(f["%d"]) ELSE 1
          ampm == IF has("%p") THEN Lower(f["%p"]) ELSE <<>>
          hour == IF has("%H") THEN ToInt(f["%H"])
                  ELSE IF has("%I")
                  THEN (IF ampm \in {<<>>, <<"a", "m">>}
                        THEN (IF ToInt(f["%I"]) = 12 THEN 0 ELSE ToInt(f["%I"]))
                        ELSE (IF ToInt(f["%I"]) # 12 THEN ToInt(f["%I"]) + 12
                                                     ELSE ToInt(f["%I"])))
                  ELSE 0
          minute == IF has("%M") THEN ToInt(f["%M"]) ELSE 0
          second == IF has("%S") THEN ToInt(f["%S"]) ELSE 0
      IN  IF ~ValidDate(year, month, day) THEN ValueError("date out of range")
          ELSE [kind |-> "struct_time",
                tm |-> <<year, month, day, hour, minute, second,
                         Weekday(year, month, day)>>]

\* strptime without its check that the match ends at the end of the text
MutStrptimeIgnoresLeftover(s, fmt) ==
    LET m == MatchFrom(fmt, 1, s, 1) IN
    IF ~m.ok THEN ValueError("time data does not match format")
    ELSE StructTime(m.found)

\* time.strptime(s, fmt)[:7], or the ValueError it raises
strptime(s, fmt) ==
    LET m == MatchFrom(fmt, 1, s, 1) IN
    IF ~m.ok THEN ValueError("time data does not match format")
    ELSE IF m.end # Len(s) THEN ValueError("unconverted data remains")
    ELSE StructTime(m.found)

\* datetime.replace(microsecond=0)
replace_microsecond(dt) == [dt EXCEPT !.microsecond = 0]

\* parse_datetime.convert(format): rv = datetime(*strptime(string, format)[:7])
\* and rv.replace(microsecond=0); the seventh field, tm_wday, lands in
\* microsecond before it is cleared
convert(s, fmt) ==
    LET st == strptime(s, fmt) IN
    IF st.kind = "ValueError" THEN st
    ELSE LET dt == datetime(st.tm[1], st.tm[2], st.tm[3], st.tm[4], st.tm[5],
                            st.tm[6], st.tm[7])
         IN  IF dt.kind = "ValueError" THEN dt ELSE replace_microsecond(dt)

\* the shortcut comparing without lower()
MutIsNowCaseSensitive(s) == s = None \/ s = <<"n", "o", "w">>

\* string is None or string.lower() in ('now', _('now'))
IsNow(s) == s = None \/ Lower(s) = <<"n", "o", "w">>

\* the time-only branch returning the parsed value itself
MutTodayAtReturnsVal(nw, val) == val

\* datetime.utcnow().replace(hour=val.hour, minute=val.minute,
\*                           second=val.second, microsecond=0)
TodayAt(nw, val) ==
    [nw EXCEPT !.hour = val.hour, !.minute = val.minute,
               !.second = val.second, !.microsecond = 0]

\* u'%d-%02d-%02d %02d:%02d' % (year, month, day, hour, minute)
format_system_datetime(dt) ==
    Dec(dt.year) \o <<"-">> \o Dec02(dt.month) \o <<"-">> \o Dec02(dt.day)
        \o <<" ">> \o Dec02(dt.hour) \o <<":">> \o Dec02(dt.minute)

----------------------------------------------------------------------------
(* parse_datetime as a function of its arguments and of utcnow() *)

\* the index of the first format of fmts, from i on, that convert accepts; 0 if none
RECURSIVE FirstFrom(_, _, _)
FirstFrom(s, fmts, i) ==
    IF i > Len(fmts) THEN 0
    ELSE IF convert(s, fmts[i]).kind = "datetime" THEN i
    ELSE FirstFrom(s, fmts, i + 1)

\* what parse_datetime returns or raises past the shortcut
ParseFormats(s, nw) ==
    LET c == convert(s, CANONICAL_FORMAT)
        ti == FirstFrom(s, TIME_FORMATS, 1)
        ci == FirstFrom(s, combined, 1)
    IN  IF c.kind = "datetime" THEN c
        ELSE IF ti # 0 THEN TodayAt(nw, convert(s, TIME_FORMATS[ti]))
        ELSE IF ci # 0 THEN convert(s, combined[ci])
        ELSE ValueError("invalid date format")

\* parse_datetime shifting the hour when rebase is set
MutParseDatetimeRebases(s, rb, nw) ==
    LET r == IF IsNow(s) THEN replace_microsecond(nw) ELSE ParseFormats(s, nw)
    IN  IF rb /\ r.kind = "datetime" THEN [r EXCEPT !.hour = (r.hour + 1) % 24] ELSE r

parse_datetime(s, rb, nw) ==
    IF IsNow(s) THEN replace_microsecond(nw) ELSE ParseFormats(s, nw)

----------------------------------------------------------------------------
(* The arguments the calls are made with *)

\* the longest run of spaces put between a date text and a time text
MaxGap == 2

Gap(n) == [i \in 1..n |-> " "]

Slashed(a, b, c) == a \o <<"/">> \o b \o <<"/">> \o c

Colon(a, b) == a \o <<":">> \o b

DateTexts ==
    { Slashed(<<"0", "3">>, <<"0", "4">>, <<"2", "0", "2", "0">>),   \* 03/04/2020
      Slashed(<<"1", "3">>, <<"0", "4">>, <<"2", "0", "2", "0">>),   \* 13/04/2020
      Slashed(<<"0", "2">>, <<"3", "0">>, <<"2", "0", "2", "0">>),   \* 02/30/2020
      Slashed(<<"0", "3">>, <<"0", "4">>, <<"6", "9">>),             \* 03/04/69
      <<"2", "0", "2", "0", "0", "3", "0", "4">>,                    \* 20200304
      <<"4", ".", " ", "3", ".", " ", "2", "0", "2", "0">>,          \* 4. 3. 2020
      <<"2", "0", "0", "3", "0", "4">>,                              \* 200304
      <<"1", "1", "1", "2", "3">>,                                   \* 11123
      <<"2", "0", "2", "0", "-", "0", "3", "-", "0", "4">>,          \* 2020-03-04
      <<"P", "M">>,
      <<"P", "M", " ">> \o Slashed(<<"0", "3">>, <<"0", "4">>, <<"2", "0", "2", "0">>) }
                                                                     \* PM 03/04/2020

\* time texts with the time of day their writer means (<<>>: not a time)
TimeTable ==
    { [t |-> Colon(<<"1", "4">>, <<"3", "0">>), hms |-> <<14, 30, 0>>],      \* 14:30
      [t |-> Colon(<<"2">>, <<"5">>), hms |-> <<2, 5, 0>>],                  \* 2:5
      [t |-> Colon(<<"2", "4">>, <<"0", "0">>), hms |-> <<>>],               \* 24:00
      [t |-> Colon(<<"1", "4">>, Colon(<<"3", "0">>, <<"4", "5">>)),
       hms |-> <<14, 30, 45>>],                                              \* 14:30:45
      [t |-> Colon(<<"1", "4">>, Colon(<<"3", "0">>, <<"6", "0">>)),
       hms |-> <<>>],                                                        \* 14:30:60
      [t |-> Colon(<<"2">>, <<"3", "0">>) \o <<" ", "P", "M">>,
       hms |-> <<14, 30, 0>>],                                               \* 2:30 PM
      [t |-> Colon(<<"1", "2">>, <<"3", "0">>) \o <<" ", "A", "M">>,
       hms |-> <<0, 30, 0>>],                                                \* 12:30 AM
      [t |-> Colon(<<"1", "2">>, <<"0", "5">>) \o <<" ", "p", "m">>,
       hms |-> <<12, 5, 0>>],                                                \* 12:05 pm
      [t |-> Colon(<<"2">>, Colon(<<"3", "0">>, <<"1", "5">>)) \o <<" ", "P", "m">>,
       hms |-> <<14, 30, 15>>],                                              \* 2:30:15 Pm
      [t |-> Colon(<<"1", "3">>, <<"3", "0">>) \o <<" ", "P", "M">>,
       hms |-> <<>>],                                                        \* 13:30 PM
      [t |-> Colon(<<"1", "4">>, <<"3", "0">>) \o <<"\n">>, hms |-> <<>>] }  \* 14:30\n

TimeTexts == { r.t : r \in TimeTable }

CanonYears == {0, 999, 2020, 9999}
CanonDays == {<<3, 4>>, <<2, 29>>, <<12, 31>>, <<2, 30>>}
CanonTimes == {<<14, 30>>, <<0, 0>>, <<9, 5>>, <<24, 0>>}

\* 'YYYY-MM-DD HH:MM' for the given fields, zero-padded
Canonical(y, md, hm) ==
    Dec04(y) \o <<"-">> \o Dec02(md[1]) \o <<"-">> \o Dec02(md[2])
        \o <<" ">> \o Dec02(hm[1]) \o <<":">> \o Dec02(hm[2])

\* the same fields without zero padding of month, day, hour and minute
Unpadded(y, md, hm) ==
    Dec04(y) \o <<"-">> \o Dec(md[1]) \o <<"-">> \o Dec(md[2])
        \o <<" ">> \o Dec(hm[1]) \o <<":">> \o Dec(hm[2])

Plain(s) == [s |-> s, parts |-> [kind |-> "plain", d |-> <<>>, t |-> <<>>, gap |-> 0]]

NowInputs ==
    { Plain(None), Plain(<<"n", "o", "w">>), Plain(<<"N", "O", "W">>),
      Plain(<<"N", "o", "w">>), Plain(<<"n", "o", "w", "x">>),
      Plain(<<"n", "o">>), Plain(<<" ", "n", "o", "w">>), Plain(<<>>) }

CanonicalInputs ==
    { [s |-> Canonical(y, md, hm),
       parts |-> [kind |-> "canonical", d |-> <<y, md[1], md[2]>>, t |-> hm, gap |-> 1]] :
        y \in CanonYears, md \in CanonDays, hm \in CanonTimes }
    \cup
    { Plain(Unpadded(y, md, hm)) : y \in CanonYears, md \in CanonDays, hm \in CanonTimes }
    \cup
    { Plain(Canonical(2020, <<3, 4>>, <<14, 30>>) \o tail) :
        tail \in {<<"x">>, <<"\n">>, <<":", "0", "0">>, <<" ">>} }

TimeInputs == { Plain(t) : t \in TimeTexts } \cup { Plain(d) : d \in DateTexts }

CombinedInputs ==
    { [s |-> d \o Gap(g) \o t,
       parts |-> [kind |-> "date time", d |-> d, t |-> t, gap |-> g]] :
        d \in DateTexts, t \in TimeTexts, g \in 1..MaxGap }
    \cup
    { [s |-> t \o Gap(g) \o d,
       parts |-> [kind |-> "time date", d |-> d, t |-> t, gap |-> g]] :
        d \in DateTexts, t \in TimeTexts, g \in 1..MaxGap }

Inputs == NowInputs \cup CanonicalInputs \cup TimeInputs \cup CombinedInputs

Stamp(y, m, d, H, M, S, us) ==
    [kind |-> "datetime", year |-> y, month |-> m, day |-> d,
     hour |-> H, minute |-> M, second |-> S, microsecond |-> us]

\* values of datetime.utcnow()
Nows == { Stamp(2024, 2, 29, 23, 59, 58, 123456), Stamp(1999, 12, 31, 0, 0, 0, 0) }

----------------------------------------------------------------------------
(* parse_datetime, one step per candidate format, then                     *)
(* format_system_datetime on what it returned                              *)

Idle == /\ value = None
        /\ required = FALSE
        /\ message = None
        /\ again = NoValue

Init ==
    /\ \E inp \in Inputs : string = inp.s /\ parts = inp.parts
    /\ rebase \in BOOLEAN
    /\ now \in Nows
    /\ pc = "start"
    /\ idx = 0
    /\ tried = 0
    /\ line = 0
    /\ rv = NoValue
    /\ text = None
    /\ Idle

Args == <<string, rebase, now, parts, value, required, message, again>>

\* lines 44-45
ReturnNow ==
    /\ pc = "start"
    /\ IsNow(string)
    /\ rv' = replace_microsecond(now)
    /\ pc' = "returned"
    /\ line' = 45
    /\ UNCHANGED <<Args, idx, tried, text>>

\* lines 55-58
TryCanonical ==
    /\ pc = "start"
    /\ ~IsNow(string)
    /\ tried' = tried + 1
    /\ IF convert(string, CANONICAL_FORMAT).kind = "datetime"
       THEN /\ rv' = convert(string, CANONICAL_FORMAT)
            /\ pc' = "returned"
            /\ line' = 56
            /\ idx' = idx
       ELSE /\ pc' = "time_only"
            /\ idx' = 1
            /\ UNCHANGED <<rv, line>>
    /\ UNCHANGED <<Args, text>>

\* lines 61-67
TryTimeFormat ==
    /\ pc = "time_only"
    /\ idx <= Len(TIME_FORMATS)
    /\ tried' = tried + 1
    /\ IF convert(string, TIME_FORMATS[idx]).kind = "datetime"
       THEN /\ rv' = TodayAt(now, convert(string, TIME_FORMATS[idx]))
            /\ pc' = "returned"
            /\ line' = 66
            /\ idx' = idx
       ELSE /\ IF idx < Len(TIME_FORMATS)
               THEN pc' = "time_only" /\ idx' = idx + 1
               ELSE pc' = "combined" /\ idx' = 1
            /\ UNCHANGED <<rv, line>>
    /\ UNCHANGED <<Args, text>>

\* lines 76-80
TryCombined ==
    /\ pc = "combined"
    /\ idx <= Len(combined)
    /\ tried' = tried + 1
    /\ IF convert(string, combined[idx]).kind = "datetime"
       THEN /\ rv' = convert(string, combined[idx])
            /\ pc' = "returned"
            /\ line' = 78
            /\ idx' = idx
       ELSE /\ pc' = "combined"
            /\ idx' = idx + 1
            /\ UNCHANGED <<rv, line>>
    /\ UNCHANGED <<Args, text>>

\* line 82
RaiseInvalid ==
    /\ pc = "combined"
    /\ idx > Len(combined)
    /\ rv' = ValueError("invalid date format")
    /\ pc' = "raised"
    /\ line' = 82
    /\ UNCHANGED <<Args, idx, tried, text>>

\* lines 90-96, on the value a call of parse_datetime returned or on a
\* datetime of the caller's
FormatSystemDatetime ==
    /\ pc \in {"returned", "format"}
    /\ text' = format_system_datetime(rv)
    /\ pc' = "formatted"
    /\ UNCHANGED <<Args, idx, tried, line, rv>>

Next ==
    \/ ReturnNow
    \/ TryCanonical
    \/ TryTimeFormat
    \/ TryCombined
    \/ RaiseInvalid
    \/ FormatSystemDatetime

Spec == Init /\ [][Next]_vars

----------------------------------------------------------------------------
(* format_system_datetime on a datetime of the caller's *)

FormatYears == {1, 9, 10, 99, 100, 999, 1000, 2020, 9999}

FormatStamps ==
    { Stamp(y, m, d, H, M, S, 0) :
        y \in FormatYears, m \in {1, 12}, d \in {1, 28}, H \in {0, 23},
        M \in {0, 59}, S \in {0, 59} }

InitFormat ==
    /\ rv \in FormatStamps
    /\ pc = "format"
    /\ string = None
    /\ parts = Plain(None).parts
    /\ rebase \in BOOLEAN
    /\ now \in Nows
    /\ idx = 0
    /\ tried = 0
    /\ line = 0
    /\ text = None
    /\ Idle

SpecFormat == InitFormat /\ [][FormatSystemDatetime]_vars

----------------------------------------------------------------------------
(* hugh.localized.us *)

ValidationError(msg) == [kind |-> "ValidationError", msg |-> msg]

\* what a call returned
Value(v) == [kind |-> "value", v |-> v]

AllDigits(s, from, to) == \A i \in from..to : s[i] \in Digit

\* the regular expression's $ at position pos of s (re.match, no re.MULTILINE):
\* the end of the text, or just before a newline that ends the text
Dollar(s, pos) == pos = Len(s) + 1 \/ (pos = Len(s) /\ s[pos] = "\n")

\* _zip_code_re.match(v) is not None, for ^\d{5}(?:-\d{4})?$
zip_code_re_match(v) ==
    /\ Len(v) >= 5
    /\ AllDigits(v, 1, 5)
    /\ \/ /\ Len(v) >= 10
          /\ v[6] = "-"
          /\ AllDigits(v, 7, 10)
          /\ Dollar(v, 11)
       \/ Dollar(v, 6)

DEFAULT_ZIP_MESSAGE == <<"The zip code must be in the format ##### or #####-####">>

\* _phone_digits_strip_re.sub('', v), for [-\.()\s]
phone_digits_strip(v) ==
    SelectSeq(v, LAMBDA c : c \notin ({"-", ".", "(", ")"} \cup Whitespace))

\* _phone_digits_re.match(v).groups(), for ^1?(\d{3})(\d{3})(\d{4})$:
\* 1? first takes a leading 1 and gives it back when the rest does not match
phone_digits_re_match(v) ==
    IF /\ Len(v) >= 11
       /\ v[1] = "1"
       /\ AllDigits(v, 2, 11)
       /\ Dollar(v, 12)
    THEN [ok |-> TRUE,
          groups |-> <<SubSeq(v, 2, 4), SubSeq(v, 5, 7), SubSeq(v, 8, 11)>>]
    ELSE IF /\ Len(v) >= 10
            /\ AllDigits(v, 1, 10)
            /\ Dollar(v, 11)
    THEN [ok |-> TRUE,
          groups |-> <<SubSeq(v, 1, 3), SubSeq(v, 4, 6), SubSeq(v, 7, 10)>>]
    ELSE [ok |-> FALSE]

MESSAGES ==
    [invalid_phone |-> "Please enter a phone number with area code in the format 555-867-5309",
     bad_area_code |-> "Phone area codes cannot begin with a \"1\" or \"0\"",
     required |-> "This field is required."]

\* forms.TextField.convert as the doctests of USPhoneNumberField show it
TextField_convert(v, req) ==
    IF req /\ v = <<>> THEN ValidationError(MESSAGES.required) ELSE Value(v)

\* the area code test rejecting a leading 0 only
MutBadAreaCodeZeroOnly(area) == area[1] = "0"

\* match.group(1)[0] in '01'
BadAreaCode(area) == area[1] \in {"0", "1"}

\* USPhoneNumberField.convert
USPhoneNumberField_convert(v, req) ==
    LET base == TextField_convert(v, req) IN
    IF base.kind = "ValidationError" THEN base
    ELSE IF base.v = <<>> /\ ~req THEN base
    ELSE LET m == phone_digits_re_match(phone_digits_strip(base.v)) IN
         IF ~m.ok THEN ValidationError(MESSAGES.invalid_phone)
         ELSE IF BadAreaCode(m.groups[1]) THEN ValidationError(MESSAGES.bad_area_code)
         ELSE Value(m.groups[1] \o <<"-">> \o m.groups[2] \o <<"-">> \o m.groups[3])

IdleI18n ==
    /\ string = None
    /\ parts = Plain(None).parts
    /\ rebase = FALSE
    /\ now = Stamp(1999, 12, 31, 0, 0, 0, 0)
    /\ idx = 0
    /\ tried = 0
    /\ line = 0
    /\ text = None
    /\ rv = NoValue

(* is_valid_us_zip_code *)

\* the longest run of newlines that ends a zip code value
MaxNewlines == 2

Newlines(n) == [i \in 1..n |-> "\n"]

ZipHeads ==
    { <<"1", "2", "3", "4", "5">>, <<"1", "2", "3", "4">>,
      <<"1", "2", "3", "4", "5", "6">>, <<"a", "b", "c", "d", "e">>,
      <<"1", "2", "3", "4", "a">>, <<" ", "1", "2", "3", "4", "5">>, <<>> }

ZipExts ==
    { <<>>, <<"-", "6", "7", "8", "9">>, <<"6", "7", "8", "9">>,
      <<"-", "6", "7", "8">>, <<"-", "6", "7", "8", "9", "0">>, <<"-">>,
      <<"-", "6", "7", "8", "a">>, <<"\n", "-", "6", "7", "8", "9">> }

ZipTails == { Newlines(n) : n \in 0..MaxNewlines } \cup { <<" ">>, <<"x">>, <<"\n", "x">> }

ZipInputs == { h \o e \o t : h \in ZipHeads, e \in ZipExts, t \in ZipTails }

InitZip ==
    /\ value \in ZipInputs
    /\ message \in {None, <<"Bad zip">>}
    /\ required = FALSE
    /\ again = NoValue
    /\ pc = "is_valid_us_zip_code"
    /\ IdleI18n

\* lines 24-29: the validator is made, with the default message for None
MakeValidator ==
    /\ pc = "is_valid_us_zip_code"
    /\ message' = IF message = None THEN DEFAULT_ZIP_MESSAGE ELSE message
    /\ pc' = "validator"
    /\ UNCHANGED <<string, rebase, now, parts, idx, tried, line, rv, text,
                   value, required, again>>

\* lines 26-28: validator(form, value)
Validator ==
    /\ pc = "validator"
    /\ IF zip_code_re_match(value)
       THEN pc' = "accepted" /\ rv' = Value(None)
       ELSE pc' = "rejected" /\ rv' = ValidationError(message)
    /\ UNCHANGED <<string, rebase, now, parts, idx, tried, line, text,
                   value, required, message, again>>

NextZip == MakeValidator \/ Validator

SpecZip == InitZip /\ [][NextZip]_vars

(* USPhoneNumberField *)

\* the most digits put after a phone number
MaxExtraDigits == 1

Fives(n) == [i \in 1..n |-> "5"]

PhonePrefixes == { <<>>, <<"1">>, <<"1", "-">>, <<"1", ".">>, <<"2">> }

PhoneAreas == { <<"5", "5", "5">>, <<"1", "5", "5">>, <<"0", "5", "5">>, <<"2", "1", "2">> }

\* area code, exchange and number written in one of the usual ways
PhoneStyles(a) ==
    { a \o <<"-", "8", "6", "7", "-", "5", "3", "0", "9">>,
      a \o <<".", "8", "6", "7", ".", "5", "3", "0", "9">>,
      a \o <<"8", "6", "7", "5", "3", "0", "9">>,
      <<"(">> \o a \o <<")", " ", " ", "8", "6", "7", " ", "-", " ", "5", "3", "0", "9">>,
      a \o <<"-", "8", "6", "7", "-", "5", "3", "0">>,
      a \o <<"-", "8", "6", "7", "-", "5", "3", "0", "x">> }

PhoneTails == { Fives(n) : n \in 0..MaxExtraDigits } \cup { <<"\n">>, <<"x">> }

PhoneInputs ==
    { p \o n \o t : p \in PhonePrefixes, n \in UNION { PhoneStyles(a) : a \in PhoneAreas },
                    t \in PhoneTails }
    \cup { <<>>, <<"1", "2", "3", "4", "5">>, <<"-", "-", "-">>, <<" ">> }

InitPhone ==
    /\ value \in PhoneInputs
    /\ required \in BOOLEAN
    /\ message = None
    /\ again = NoValue
    /\ pc = "convert"
    /\ IdleI18n

\* lines 92-102
Convert ==
    /\ pc = "convert"
    /\ rv' = USPhoneNumberField_convert(value, required)
    /\ pc' = IF rv'.kind = "value" THEN "converted" ELSE "invalid"
    /\ UNCHANGED <<string, rebase, now, parts, idx, tried, line, text,
                   value, required, message, again>>

\* lines 92-102, on the value convert returned
ConvertAgain ==
    /\ pc = "converted"
    /\ again' = USPhoneNumberField_convert(rv.v, required)
    /\ pc' = "converted again"
    /\ UNCHANGED <<string, rebase, now, parts, idx, tried, line, rv, text,
                   value, required, message>>

NextPhone == Convert \/ ConvertAgain

SpecPhone == InitPhone /\ [][NextPhone]_vars

----------------------------------------------------------------------------
(* Properties of parse_datetime and format_system_datetime *)

Returned == pc = "returned"
Ended == pc \in {"returned", "raised"}

\* the candidate formats in the priority order of the specification:
\* canonical, the time formats, then per time format and per date format
\* 'time date' and 'date time'
Priority ==
    [n \in 1..(1 + Len(TIME_FORMATS) + 2 * Len(TIME_FORMATS) * Len(DATE_FORMATS)) |->
        IF n = 1 THEN CANONICAL_FORMAT
        ELSE IF n <= 1 + Len(TIME_FORMATS) THEN TIME_FORMATS[n - 1]
        ELSE LET k == n - 2 - Len(TIME_FORMATS)
                 t == TIME_FORMATS[(k \div (2 * Len(DATE_FORMATS))) + 1]
                 d == DATE_FORMATS[((k \div 2) % Len(DATE_FORMATS)) + 1]
             IN  IF k % 2 = 0 THEN t \o <<" ">> \o d ELSE d \o <<" ">> \o t]

\* the regular expression of fmt matches the whole of s
FullMatch(s, fmt) ==
    MatchFrom(fmt, 1, s, 1).ok /\ MatchFrom(fmt, 1, s, 1).end = Len(s)

Text_2020_03_04_1430 == Canonical(2020, <<3, 4>>, <<14, 30>>)
Text_03_04_2020_1430 ==
    Slashed(<<"0", "3">>, <<"0", "4">>, <<"2", "0", "2", "0">>) \o <<" ">>
        \o Colon(<<"1", "4">>, <<"3", "0">>)
Text_1430_03_04_2020 ==
    Colon(<<"1", "4">>, <<"3", "0">>) \o <<" ">>
        \o Slashed(<<"0", "3">>, <<"0", "4">>, <<"2", "0", "2", "0">>)

\* C1: every zero-padded canonical text 'YYYY-MM-DD HH:MM' that
\* parse_datetime accepts through the canonical format comes back unchanged
\* from format_system_datetime(parse_datetime(s)), years below 1000 included.
C1_RoundTrip ==
    (pc = "formatted" /\ line = 56 /\ parts.kind = "canonical") => text = string

\* C2: the call returns what the first format of the priority order that
\* converts the text yields, after consulting exactly the formats up to it;
\* '03/04/2020 14:30' reads as month 3, day 4 and '2020-03-04 14:30' as
\* 2020-03-04 14:30.
C2_FirstFormatWins ==
    /\ (Returned /\ line # 45) =>
          /\ tried \in 1..Len(Priority)
          /\ \A j \in 1..(tried - 1) : convert(string, Priority[j]).kind = "ValueError"
          /\ convert(string, Priority[tried]).kind = "datetime"
          /\ rv = IF tried \in 2..(1 + Len(TIME_FORMATS))
                  THEN TodayAt(now, convert(string, Priority[tried]))
                  ELSE convert(string, Priority[tried])
    /\ (Ended /\ string = Text_03_04_2020_1430) =>
          rv = Stamp(2020, 3, 4, 14, 30, 0, 0)
    /\ (Ended /\ string = Text_2020_03_04_1430) =>
          rv = Stamp(2020, 3, 4, 14, 30, 0, 0)

C2_Witness ==
    /\ pc = "returned"
    /\ string = Text_03_04_2020_1430
    /\ line = 78
    /\ tried = 7
    /\ rv.month = 3
    /\ rv.day = 4

\* C3: a text that is not "now" and that no candidate format matches in its
\* entirety is never accepted; the call ends with ValueError('invalid date
\* format') after all 77 formats were tried, and no other error leaves it.
C3_InvalidFormat ==
    /\ (Returned /\ line # 45) =>
          \E j \in 1..Len(Priority) : FullMatch(string, Priority[j])
    /\ pc \in {"returned", "formatted"} => rv.kind = "datetime"
    /\ pc = "raised" =>
          /\ rv = ValueError("invalid date format")
          /\ tried = 77
          /\ ~IsNow(string)
    /\ rv.kind = "ValueError" => pc = "raised"

C3_Witness ==
    /\ pc = "raised"
    /\ string = Text_2020_03_04_1430 \o <<"x">>
    /\ MatchFrom(CANONICAL_FORMAT, 1, string, 1).ok
    /\ rv = ValueError("invalid date format")

\* C4: for None and for "now" in any letter case the call returns utcnow()
\* with microsecond 0, tries no format and raises nothing.
C4_NowShortcut ==
    (string = None \/ Lower(string) = <<"n", "o", "w">>) =>
        /\ pc \in {"start", "returned", "formatted"}
        /\ tried = 0
        /\ pc \in {"returned", "formatted"} =>
              /\ line = 45
              /\ rv = Stamp(now.year, now.month, now.day, now.hour, now.minute,
                            now.second, 0)

C4_Witness ==
    /\ pc = "returned"
    /\ string = <<"N", "O", "W">>
    /\ now.microsecond # 0
    /\ rv.microsecond = 0
    /\ rv.second = now.second

\* the time of day the writer of a time text means
Meaning(t) == (CHOOSE r \in TimeTable : r.t = t).hms

\* C5: a text the canonical format rejects and a time format accepts yields
\* today's UTC date with the hour, minute and second of the first time format
\* that accepts it (second 0 without a seconds field, 12-hour input
\* converted to 24-hour) and microsecond 0.
C5_TimeOnly ==
    /\ (Ended /\ ~IsNow(string)
          /\ convert(string, CANONICAL_FORMAT).kind = "ValueError"
          /\ FirstFrom(string, TIME_FORMATS, 1) # 0) =>
          LET val == convert(string, TIME_FORMATS[FirstFrom(string, TIME_FORMATS, 1)])
          IN  /\ line = 66
              /\ rv = Stamp(now.year, now.month, now.day,
                            val.hour, val.minute, val.second, 0)
    /\ (Ended /\ parts.kind = "plain" /\ string \in TimeTexts) =>
          IF Meaning(string) = <<>> THEN pc = "raised"
          ELSE rv = Stamp(now.year, now.month, now.day,
                          Meaning(string)[1], Meaning(string)[2], Meaning(string)[3], 0)

C5_Witness ==
    /\ pc = "returned"
    /\ line = 66
    /\ string = Colon(<<"1", "2">>, <<"3", "0">>) \o <<" ", "A", "M">>
    /\ rv.hour = 0
    /\ rv.year = now.year
    /\ now.microsecond # 0

Trimmed(s) == Len(s) > 0 /\ s[1] \notin Whitespace /\ s[Len(s)] \notin Whitespace

\* a text that the regular expression of some date (time) format matches
IsDateText(s) == \E i \in 1..Len(DATE_FORMATS) : FullMatch(s, DATE_FORMATS[i])
IsTimeText(s) == \E i \in 1..Len(TIME_FORMATS) : FullMatch(s, TIME_FORMATS[i])

\* the argument with its date text and its time text exchanged
Swapped == IF parts.kind = "date time" THEN parts.t \o Gap(parts.gap) \o parts.d
           ELSE parts.d \o Gap(parts.gap) \o parts.t

\* the (time format, date format) pair of the n-th combined format
PairOf(n) == (n + 1) \div 2

\* C6: for a date text D and a time text T without surrounding whitespace,
\* when D T (or T D) is accepted through a combined format then the other
\* order is accepted too, through the same (time format, date format) pair,
\* with the same timestamp.
C6_OrderIndependent ==
    (/\ Returned
     /\ line = 78
     /\ parts.kind \in {"date time", "time date"}
     /\ Trimmed(parts.d) /\ Trimmed(parts.t)
     /\ IsDateText(parts.d) /\ IsTimeText(parts.t)) =>
        LET ci == FirstFrom(Swapped, combined, 1)
        IN  /\ ~IsNow(Swapped)
            /\ convert(Swapped, CANONICAL_FORMAT).kind = "ValueError"
            /\ FirstFrom(Swapped, TIME_FORMATS, 1) = 0
            /\ ci # 0
            /\ PairOf(ci) = PairOf(idx)
            /\ convert(Swapped, combined[ci]) = rv
            /\ parse_datetime(Swapped, rebase, now) = rv

C6_Witness ==
    /\ pc = "returned"
    /\ line = 78
    /\ string = Text_1430_03_04_2020
    /\ Swapped = Text_03_04_2020_1430
    /\ parse_datetime(Swapped, rebase, now) = rv
    /\ rv = Stamp(2020, 3, 4, 14, 30, 0, 0)

\* C7: format_system_datetime returns exactly 'YYYY-MM-DD HH:MM' for every
\* datetime of year 1..9999: 16 characters, the year zero-padded to four
\* digits, the seconds left out.
C7_FixedShape ==
    pc = "formatted" =>
        /\ Len(text) = 16
        /\ text = Dec04(rv.year) \o <<"-">> \o Dec02(rv.month) \o <<"-">>
                    \o Dec02(rv.day) \o <<" ">> \o Dec02(rv.hour) \o <<":">>
                    \o Dec02(rv.minute)

----------------------------------------------------------------------------
(* Properties of hugh.localized.us *)

Separators == {"-", ".", "(", ")", " ", "\t", "\n", "\r"}

\* the characters of v that are not separators
RECURSIVE WithoutSeparators(_)
WithoutSeparators(v) ==
    IF v = <<>> THEN <<>>
    ELSE IF Head(v) \in Separators THEN WithoutSeparators(Tail(v))
    ELSE <<Head(v)>> \o WithoutSeparators(Tail(v))

IsDigits(s, n) == Len(s) = n /\ \A i \in 1..n : s[i] \in Digit

\* the ten digits of a value: ten digits, or a 1 and ten digits, once the
\* separators are removed; <<>> for any other value
TenDigits(v) ==
    LET d == WithoutSeparators(v) IN
    IF IsDigits(d, 10) THEN d
    ELSE IF IsDigits(d, 11) /\ d[1] = "1" THEN Tail(d)
    ELSE <<>>

Dashed(d) == SubSeq(d, 1, 3) \o <<"-">> \o SubSeq(d, 4, 6) \o <<"-">> \o SubSeq(d, 7, 10)

\* C9: convert returns 'AAA-EEE-NNNN' made of the value's ten digits, with
\* A not starting with 0 or 1; it rejects an area code starting with 0 or 1
\* with bad_area_code and any other value that is not ten digits (or 1 and
\* ten digits) with invalid_phone; an empty value of a field that is not
\* required comes back unchanged; convert is idempotent on what it returns.
C9_PhoneNormalized ==
    pc \in {"converted", "invalid", "converted again"} =>
        /\ IF value = <<>>
           THEN rv = IF required THEN ValidationError(MESSAGES.required) ELSE Value(<<>>)
           ELSE IF TenDigits(value) = <<>>
                THEN rv = ValidationError(MESSAGES.invalid_phone)
           ELSE IF TenDigits(value)[1] \in {"0", "1"}
                THEN rv = ValidationError(MESSAGES.bad_area_code)
           ELSE rv = Value(Dashed(TenDigits(value)))
        /\ (rv.kind = "value" /\ rv.v # <<>>) =>
              /\ Len(rv.v) = 12
              /\ rv.v[4] = "-" /\ rv.v[8] = "-"
              /\ \A i \in (1..12) \ {4, 8} : rv.v[i] \in Digit
              /\ rv.v[1] \notin {"0", "1"}
        /\ pc = "converted again" => again = rv

C9_Witness ==
    /\ pc = "converted again"
    /\ value = <<"1", ".", "(", "5", "5", "5", ")", " ", " ", "8", "6", "7", " ", "-", " ",
                 "5", "3", "0", "9">>
    /\ rv = Value(<<"5", "5", "5", "-", "8", "6", "7", "-", "5", "3", "0", "9">>)
    /\ again = rv

\* the whole value is ##### or #####-####
IsZipCode(v) ==
    \/ IsDigits(v, 5)
    \/ /\ Len(v) = 10
       /\ IsDigits(SubSeq(v, 1, 5), 5)
       /\ v[6] = "-"
       /\ IsDigits(SubSeq(v, 7, 10), 4)

\* C10: the validator accepts a value exactly when the whole value is #####
\* or #####-####, and raises ValidationError with the configured message for
\* every other value, a zip code followed by a newline included.
C10_ZipWholeValue ==
    /\ pc = "accepted" => IsZipCode(value)
    /\ pc = "rejected" =>
          /\ ~IsZipCode(value)
          /\ rv \in {ValidationError(DEFAULT_ZIP_MESSAGE), ValidationError(<<"Bad zip">>)}
          /\ rv = ValidationError(message)

====
